---- MODULE Spec2Model ----
(***************************************************************************)
(* CDC transformation and routing of the OLTP-to-OLAP example apps.        *)
(*                                                                         *)
(* Three variants of process_cdc_events are modelled side by side:         *)
(*   "moose"      apps/sqlmodel-example/moose  (registry lookup, copies    *)
(*                the payload, OLAP models with the None normalizer)       *)
(*   "app"        apps/sqlmodel-example/app/main.py (static dispatch,      *)
(*                annotates event.payload in place)                        *)
(*   "sqlalchemy" apps/sqlalchemy-example/app (static dispatch, flat       *)
(*                event, lsn read as one hex number)                       *)
(* The hosting runtime hands one event at a time to the registered         *)
(* consumer and, when the consumer raises, publishes the event it holds    *)
(* to the consumer's dead_letter_queue.                                    *)
(***************************************************************************)
EXTENDS Integers, Sequences, FiniteSets, TLC

VARIABLES
    variant,      \* which example app runs
    registry,     \* moose_lib stream registry: stream name -> [model_type, destination]
    phase,        \* "idle" | "received" | "transformed" | "returned" | "raised" | "done"
    arrived,      \* the envelope as it arrived on the source topic (unchanged copy)
    event,        \* the event object the runtime holds and passes to the consumer
    processed,    \* what transform_cdc_payload gave the last call of the consumer
    outcome,      \* what the runtime saw of the last delivery, and the exception kind
    typedSent,    \* <<stream name, record>> published to typed sinks during this delivery
    dlqSent,      \* events published to the dead-letter queue during this delivery
    testDimension, \* the CustomerDimension built by test_cdc_transformation
    again,        \* a second transform_cdc_payload call on the same event object:
                  \* the event as the call found it, and what the call gave
    normalized,   \* one call of replace_none_with_type_defaults: class, data in, data out
    stored,       \* destination table name -> the rows inserted so far, in order
    startup,      \* the import of the app's module: next statement, tables declared,
                  \* whether the source stream has its consumer and dead-letter queue
    workers       \* concurrent consumer processes: each one's position, the event it
                  \* took and the locals of its call of process_cdc_events

vars == <<variant, registry, phase, arrived, event, processed, outcome, typedSent, dlqSent,
          testDimension, again, normalized, stored, startup, workers>>

(***************************************************************************)
(* Python ints are unbounded.  An int that can exceed 31 bits is kept as   *)
(* sign and magnitude, the magnitude a little-endian sequence of base-16   *)
(* digits without leading zeros (<<>> is 0).                               *)
(***************************************************************************)
HexDigits == <<"0", "1", "2", "3", "4", "5", "6", "7", "8", "9",
               "A", "B", "C", "D", "E", "F">>
LowerHexDigits == <<"0", "1", "2", "3", "4", "5", "6", "7", "8", "9",
                    "a", "b", "c", "d", "e", "f">>

IsHexDigit(c) == \E i \in 1..16 : HexDigits[i] = c \/ LowerHexDigits[i] = c

HexVal(c) == (CHOOSE i \in 1..16 : HexDigits[i] = c \/ LowerHexDigits[i] = c) - 1

RECURSIVE Rev(_)
Rev(s) == IF s = <<>> THEN <<>> ELSE Append(Rev(Tail(s)), Head(s))

RECURSIVE Canon(_)
\* drop the most significant zero digits
Canon(m) == IF m # <<>> /\ m[Len(m)] = 0 THEN Canon(SubSeq(m, 1, Len(m) - 1)) ELSE m

\* zero has no sign
Signed(neg, c) == [neg |-> neg /\ c # <<>>, mag |-> c]

MkInt(neg, m) == Signed(neg, Canon(m))

RECURSIVE NatToMag(_)
NatToMag(n) == IF n = 0 THEN <<>> ELSE <<n % 16>> \o NatToMag(n \div 16)

Big(n) == MkInt(FALSE, NatToMag(n))

Bit(n, i) == (n \div (2 ^ i)) % 2

NibOr(x, y) == LET o(i) == IF Bit(x, i) + Bit(y, i) > 0 THEN 2 ^ i ELSE 0
               IN  o(0) + o(1) + o(2) + o(3)

NibAnd(x, y) == LET a(i) == IF Bit(x, i) + Bit(y, i) = 2 THEN 2 ^ i ELSE 0
                IN  a(0) + a(1) + a(2) + a(3)

Digit(m, i) == IF i <= Len(m) THEN m[i] ELSE 0

MagOr(a, b) ==
    LET n == IF Len(a) > Len(b) THEN Len(a) ELSE Len(b)
    IN  Canon([i \in 1..n |-> NibOr(Digit(a, i), Digit(b, i))])

MagAnd(a, b) == Canon([i \in 1..Len(a) |-> NibAnd(a[i], Digit(b, i))])

\* a AND NOT b
MagAndNot(a, b) == Canon([i \in 1..Len(a) |-> NibAnd(a[i], 15 - Digit(b, i))])

RECURSIVE MagInc(_)
MagInc(m) == IF m = <<>> THEN <<1>>
             ELSE IF Head(m) < 15 THEN <<Head(m) + 1>> \o Tail(m)
             ELSE <<0>> \o MagInc(Tail(m))

RECURSIVE MagDecRaw(_)
\* m - 1 for m > 0
MagDecRaw(m) == IF Head(m) > 0 THEN <<Head(m) - 1>> \o Tail(m)
                ELSE <<15>> \o MagDecRaw(Tail(m))

MagDec(m) == Canon(MagDecRaw(m))

\* Python's x | y on two's-complement ints of unbounded width
IntOr(x, y) ==
    IF ~x.neg /\ ~y.neg THEN MkInt(FALSE, MagOr(x.mag, y.mag))
    ELSE IF x.neg /\ y.neg
         THEN MkInt(TRUE, MagInc(MagAnd(MagDec(x.mag), MagDec(y.mag))))
    ELSE IF x.neg THEN MkInt(TRUE, MagInc(MagAndNot(MagDec(x.mag), y.mag)))
    ELSE MkInt(TRUE, MagInc(MagAndNot(MagDec(y.mag), x.mag)))

ShiftBits == 32

\* Python's x << ShiftBits
IntShl(x) == IF x.mag = <<>> THEN x
             ELSE MkInt(x.neg, [i \in 1..(ShiftBits \div 4) |-> 0] \o x.mag)

(***************************************************************************)
(* Strings that are parsed are sequences of one-character strings.         *)
(* PyIntHex is Python's int(s, 16): surrounding whitespace is skipped, a   *)
(* sign and a 0x prefix are accepted, digits may be grouped by single      *)
(* underscores, letters in either case.                                    *)
(***************************************************************************)
\* F applied to the value of x, x evaluated once
With(x, F(_)) == CHOOSE r \in {F(y) : y \in {x}} : TRUE

Fail(kind) == [ok |-> FALSE, err |-> kind]

Ok(v) == [ok |-> TRUE, val |-> v]

RECURSIVE LStrip(_)
LStrip(s) == IF s # <<>> /\ Head(s) = " " THEN LStrip(Tail(s)) ELSE s

Strip(s) == Rev(LStrip(Rev(LStrip(s))))

UnderscoresOK(w) ==
    /\ w # <<>>
    /\ w[1] # "_"
    /\ w[Len(w)] # "_"
    /\ \A i \in 1..(Len(w) - 1) : ~(w[i] = "_" /\ w[i + 1] = "_")
    /\ \A i \in 1..Len(w) : w[i] = "_" \/ IsHexDigit(w[i])

DigitsToMag(w) ==
    LET d == SelectSeq(w, LAMBDA c : c # "_")
    IN  Canon(Rev([i \in 1..Len(d) |-> HexVal(d[i])]))

ParseDigits(neg, w) ==
    IF UnderscoresOK(w) THEN Ok(MkInt(neg, DigitsToMag(w))) ELSE Fail("ValueError")

\* one underscore may follow the 0x prefix
AfterPrefix(v) == IF v # <<>> /\ Head(v) = "_" THEN Tail(v) ELSE v

ParsePrefixed(neg, u) ==
    IF Len(u) >= 2 /\ u[1] = "0" /\ u[2] \in {"x", "X"}
    THEN ParseDigits(neg, AfterPrefix(SubSeq(u, 3, Len(u))))
    ELSE ParseDigits(neg, u)

ParseSigned(t) ==
    IF t # <<>> /\ Head(t) \in {"+", "-"} THEN ParsePrefixed(Head(t) = "-", Tail(t))
    ELSE ParsePrefixed(FALSE, t)

PyIntHex(s) == ParseSigned(Strip(s))

RECURSIVE SplitSlash(_)
\* str.split('/')
SplitSlash(s) ==
    IF \A i \in 1..Len(s) : s[i] # "/" THEN <<s>>
    ELSE LET k == CHOOSE i \in 1..Len(s) :
                      s[i] = "/" /\ \A j \in 1..(i - 1) : s[j] # "/"
         IN  <<SubSeq(s, 1, k - 1)>> \o SplitSlash(SubSeq(s, k + 1, Len(s)))

\* str.replace("/", "")
RemoveSlash(s) == SelectSeq(s, LAMBDA c : c # "/")

\* (int(high, 16) << 32) | int(low, 16)
ShiftOr(high, low) ==
    IF ~high.ok \/ ~low.ok THEN Fail("ValueError")
    ELSE Ok(IntOr(IntShl(high.val), low.val))

\* int(high, 16) is evaluated before int(low, 16)
BothInts(parts) ==
    With(PyIntHex(parts[1]), LAMBDA high :
        With(PyIntHex(parts[2]), LAMBDA low : ShiftOr(high, low)))

\* high, low = lsn.split('/')
Unpack2(parts) ==
    IF Len(parts) # 2 THEN Fail("ValueError")
    ELSE BothInts(parts)

DecodeSplit(lsn) == With(SplitSlash(lsn), LAMBDA parts : Unpack2(parts))

\* a variation: the whole-string decoder unpacks two parts as well
DecodeWholeUnpacked(lsn_hex) == IF lsn_hex = <<>> THEN Ok(Big(0)) ELSE DecodeSplit(lsn_hex)

\* int(lsn_hex, 16) if lsn_hex else 0
DecodeWhole(lsn_hex) == IF lsn_hex = <<>> THEN Ok(Big(0)) ELSE PyIntHex(lsn_hex)

\* int(metadata.lsn.replace("/", ""), 16)
DecodeTest(lsn) == PyIntHex(RemoveSlash(lsn))

Decode(v, lsn) == IF v = "sqlalchemy" THEN DecodeWhole(lsn) ELSE DecodeSplit(lsn)

(***************************************************************************)
(* Python values carried by payloads and records, as <<type, value>>; x[1] *)
(* is the type and x[2] the value.  A Decimal or float is                 *)
(* kept in hundredths, a datetime in seconds since the epoch.              *)
(* Payload values are what json.loads yields: None, int, str, list, dict.   *)
(***************************************************************************)
PyNone == <<"none">>
PyInt(n) == <<"int", n>>
PyBigInt(b) == <<"bigint", b>>
PyStr(s) == <<"str", s>>
PyBool(b) == <<"bool", b>>
PyDecimal(h) == <<"Decimal", h>>
PyFloat(h) == <<"float", h>>
\* seconds since the epoch and hundredths of a second
PyDatetime(t) == <<"datetime", <<t, 0>>>>
PyList == <<"list">>
PyDict(d) == <<"dict", d>>

EmptyDict == [x \in {} |-> PyNone]

\* d[key] = val
Put(d, key, val) == [x \in DOMAIN d \cup {key} |-> IF x = key THEN val ELSE d[x]]

\* text that parses as a number, with its value in hundredths
NumericText == [s \in {"9.99", "0", "42"} |->
                   IF s = "9.99" THEN 999 ELSE IF s = "42" THEN 4200 ELSE 0]

\* text that parses as an ISO 8601 datetime, with its seconds since the epoch
IsoText == [s \in {"2024-01-01T00:00:00"} |-> 1704067200]

(***************************************************************************)
(* Pydantic field declarations: type, whether a value must be supplied,    *)
(* whether None is accepted, the default used when the key is absent, and  *)
(* the constraints min_length=1 and gt=0.                                  *)
(***************************************************************************)
Req(t) == [type |-> t, required |-> TRUE, nullable |-> FALSE, default |-> PyNone,
           min_length |-> 0, gt |-> FALSE]

MinLen1(f) == [f EXCEPT !.min_length = 1]

Gt0(f) == [f EXCEPT !.gt = TRUE]

Default(f, d) == [f EXCEPT !.required = FALSE, !.default = d]

Nullable(f) == [f EXCEPT !.nullable = TRUE]

CdcFields == [is_deleted |-> Req("int"), lsn |-> Req("int")]

Merge(a, b) == [x \in DOMAIN a \cup DOMAIN b |-> IF x \in DOMAIN b THEN b[x] ELSE a[x]]

\* src/db/models.py: the SQLModel bases the moose OLAP models inherit from
CustomerBase == [email |-> Req("str"), name |-> MinLen1(Req("str")),
                 country |-> MinLen1(Req("str")), city |-> MinLen1(Req("str"))]

ProductBase == [name |-> MinLen1(Req("str")), category |-> MinLen1(Req("str")),
                price |-> Gt0(Req("Decimal"))]

OrderBase == [customerId |-> Default(Req("int"), PyNone),
              orderDate |-> Nullable(Default(Req("datetime"), PyDatetime(1700000000))),
              total |-> Gt0(Req("Decimal"))]

OrderItemBase == [orderId |-> Default(Req("int"), PyNone),
                  productId |-> Default(Req("int"), PyNone),
                  quantity |-> Gt0(Req("int")), price |-> Gt0(Req("Decimal"))]

\* moose/models/models.py: class X(XBase, CdcOlapModelBase), own fields override
MooseCustomer == Merge(Merge(CdcFields, CustomerBase), [id |-> Req("int")])

MooseProduct == Merge(Merge(CdcFields, ProductBase),
                      [id |-> Req("int"), category |-> Req("str")])

MooseOrder == Merge(Merge(CdcFields, OrderBase), [id |-> Req("int"), status |-> Req("str")])

MooseOrderItem == Merge(Merge(CdcFields, OrderItemBase),
                        [id |-> Req("int"), quantity |-> Req("int")])

\* sqlmodel-example/app/main.py: class X(CdcFields, BaseModel)
AppCustomer == Merge(CdcFields, [id |-> Req("int"), email |-> Req("str"),
                   name |-> Req("str"), country |-> Req("str"), city |-> Req("str"),
                   createdAt |-> Req("datetime")])

AppProduct == Merge(CdcFields, [id |-> Req("int"), name |-> Req("str"),
                  category |-> Req("str"), price |-> Req("Decimal"),
                  createdAt |-> Req("datetime")])

AppOrder == Merge(CdcFields, [id |-> Req("int"), customerId |-> Req("int"),
                orderDate |-> Req("datetime"), status |-> Req("str"),
                total |-> Req("Decimal")])

AppOrderItem == Merge(CdcFields, [id |-> Req("int"), orderId |-> Req("int"),
                    productId |-> Req("int"), quantity |-> Req("int"),
                    price |-> Req("Decimal")])

\* sqlalchemy-example/app/models/__init__.py
CustomerDimension == Merge(CdcFields, [id |-> Req("int"), email |-> Req("str"),
                         name |-> Req("str"), country |-> Req("str"), city |-> Req("str"),
                         created_at |-> Req("datetime")])

ProductDimension == Merge(CdcFields, [id |-> Req("int"), name |-> Req("str"),
                        category |-> Req("str"), price |-> Req("float"),
                        created_at |-> Req("datetime")])

OrderDimension == Merge(CdcFields, [id |-> Req("int"), customer_id |-> Req("int"),
                      order_date |-> Req("datetime"), status |-> Req("str"),
                      total |-> Req("float")])

OrderItemFact == Merge(CdcFields, [id |-> Req("int"), order_id |-> Req("int"),
                     product_id |-> Req("int"), quantity |-> Req("int"),
                     price |-> Req("float")])

ModelFields(cls) ==
    CASE cls = "moose.Customer" -> MooseCustomer
      [] cls = "moose.Product" -> MooseProduct
      [] cls = "moose.Order" -> MooseOrder
      [] cls = "moose.OrderItem" -> MooseOrderItem
      [] cls = "app.Customer" -> AppCustomer
      [] cls = "app.Product" -> AppProduct
      [] cls = "app.Order" -> AppOrder
      [] cls = "app.OrderItem" -> AppOrderItem
      [] cls = "CustomerDimension" -> CustomerDimension
      [] cls = "ProductDimension" -> ProductDimension
      [] cls = "OrderDimension" -> OrderDimension
      [] cls = "OrderItemFact" -> OrderItemFact

\* the classes that derive from CdcOlapModelBase
HasNoneNormalizer(cls) ==
    cls \in {"moose.Customer", "moose.Product", "moose.Order", "moose.OrderItem"}

(***************************************************************************)
(* Pydantic validation of one value against a field declaration (lax       *)
(* mode): None only where declared Optional; int from int; str from str;   *)
(* Decimal and float from a number or numeric text; datetime from ISO      *)
(* text, a number or numeric text (Unix time).                             *)
(***************************************************************************)
Positive(val) == IF val[1] = "bigint" THEN ~val[2].neg /\ val[2].mag # <<>>
                 ELSE val[2] > 0

ValidateValue(f, val) ==
    LET bad == Fail("SchemaValidation")
        bounded(x) == IF f.gt /\ ~Positive(x) THEN bad ELSE Ok(x)
    IN  IF val[1] = "none" THEN (IF f.nullable THEN Ok(PyNone) ELSE bad)
        ELSE CASE f.type = "int" ->
                   IF val[1] \in {"int", "bigint"} THEN bounded(val)
                   ELSE IF val[1] = "str" /\ val[2] \in DOMAIN NumericText
                           /\ NumericText[val[2]] % 100 = 0
                        THEN bounded(PyInt(NumericText[val[2]] \div 100))
                   ELSE bad
               [] f.type = "str" ->
                   IF val[1] = "str" /\ (f.min_length > 0 => val[2] # "") THEN Ok(val)
                   ELSE bad
               [] f.type \in {"Decimal", "float"} ->
                   LET mk(h) == IF f.type = "Decimal" THEN PyDecimal(h) ELSE PyFloat(h)
                   IN  IF val[1] = "int" THEN bounded(mk(val[2] * 100))
                       ELSE IF val[1] = "str" /\ val[2] \in DOMAIN NumericText
                            THEN bounded(mk(NumericText[val[2]]))
                       ELSE IF val[1] \in {"Decimal", "float"} THEN bounded(mk(val[2]))
                       ELSE bad
               [] f.type = "datetime" ->
                   IF val[1] = "datetime" THEN Ok(val)
                   ELSE IF val[1] = "int" THEN Ok(PyDatetime(val[2]))
                   ELSE IF val[1] = "str" /\ val[2] \in DOMAIN IsoText
                        THEN Ok(PyDatetime(IsoText[val[2]]))
                   ELSE IF val[1] = "str" /\ val[2] \in DOMAIN NumericText
                        THEN Ok(<<"datetime", <<NumericText[val[2]] \div 100,
                                                NumericText[val[2]] % 100>>>>)
                   ELSE bad

\* the default replace_none_with_type_defaults maps a declared type to
TypeDefault(t) ==
    CASE t = "str" -> PyStr("")
      [] t = "int" -> PyInt(0)
      [] t = "float" -> PyFloat(0)
      [] t = "datetime" -> PyDatetime(0)
      [] t = "Decimal" -> PyDecimal(0)

\* a variation: "if not data[field_name]" in place of "is None"
ReplaceFalsyWithTypeDefaults(cls, data) ==
    [x \in DOMAIN data |->
        IF x \in DOMAIN ModelFields(cls)
           /\ data[x] \in {PyNone, PyInt(0), PyStr(""), PyBool(FALSE)}
        THEN TypeDefault(ModelFields(cls)[x].type)
        ELSE data[x]]

\* a variation: a declared field whose key is absent is given its default too
ReplaceNoneAndAbsentWithTypeDefaults(cls, data) ==
    [x \in DOMAIN data \cup DOMAIN ModelFields(cls) |->
        IF x \in DOMAIN ModelFields(cls) /\ (x \notin DOMAIN data \/ data[x] = PyNone)
        THEN TypeDefault(ModelFields(cls)[x].type)
        ELSE data[x]]

\* CdcOlapModelBase.replace_none_with_type_defaults (mode='before'): every
\* declared field that is present and None gets the default of its type,
\* Optional[X] unwrapped to X; other keys are left as they are
ReplaceNoneWithTypeDefaults(cls, data) ==
    [x \in DOMAIN data |->
        IF x \in DOMAIN ModelFields(cls) /\ data[x] = PyNone
        THEN TypeDefault(ModelFields(cls)[x].type)
        ELSE data[x]]

\* the before-validator of the classes that have one
BeforeValidation(cls, data) ==
    IF HasNoneNormalizer(cls) THEN ReplaceNoneWithTypeDefaults(cls, data) ELSE data

\* one declared field: validated when its key is present, else its default
ValidateField(f, d, x) ==
    IF x \in DOMAIN d THEN ValidateValue(f, d[x])
    ELSE IF f.required THEN Fail("SchemaValidation")
    ELSE Ok(f.default)

\* cls(**data): the before-validator, then every declared field validated or
\* defaulted; keys that are no field are ignored
Construct(cls, data) ==
    With(BeforeValidation(cls, data), LAMBDA d :
        With([x \in DOMAIN ModelFields(cls) |-> ValidateField(ModelFields(cls)[x], d, x)],
             LAMBDA res :
                 IF \E x \in DOMAIN res : ~res[x].ok THEN Fail("SchemaValidation")
                 ELSE Ok([cls |-> cls, fields |-> [x \in DOMAIN res |-> res[x].val]])))

(***************************************************************************)
(* The stream registry after the module imports: sinks/streams.py and      *)
(* main.py (moose), app/main.py (app), app/sinks/topics.py (sqlalchemy).   *)
(***************************************************************************)
MooseStreams ==
    [customer  |-> [model_type |-> "moose.Customer", destination |-> "customer"],
     product   |-> [model_type |-> "moose.Product", destination |-> "product"],
     order     |-> [model_type |-> "moose.Order", destination |-> "order"],
     orderitem |-> [model_type |-> "moose.OrderItem", destination |-> "orderitem"]]

AppStreams ==
    [customer   |-> [model_type |-> "app.Customer", destination |-> "dim_customer"],
     product    |-> [model_type |-> "app.Product", destination |-> "dim_product"],
     order      |-> [model_type |-> "app.Order", destination |-> "dim_order"],
     order_item |-> [model_type |-> "app.OrderItem", destination |-> "fact_order_item"]]

SqlAlchemyStreams ==
    [customer_dimension |-> [model_type |-> "CustomerDimension",
                             destination |-> "dim_customer"],
     product_dimension  |-> [model_type |-> "ProductDimension",
                             destination |-> "dim_product"],
     order_dimension    |-> [model_type |-> "OrderDimension",
                             destination |-> "dim_order"],
     order_item_fact    |-> [model_type |-> "OrderItemFact",
                             destination |-> "fact_order_item"]]

StartupRegistry(v) ==
    CASE v = "moose" -> MooseStreams
      [] v = "app" -> AppStreams
      [] v = "sqlalchemy" -> SqlAlchemyStreams
      [] OTHER -> EmptyDict

(***************************************************************************)
(* transform_cdc_payload, one definition per variant.                      *)
(***************************************************************************)
\* a variation: anything but an insert counts as a deletion
IsDeletedUnlessInsert(operation) == IF operation = "insert" THEN 0 ELSE 1

\* 1 if operation == 'delete' else 0
IsDeleted(operation) == IF operation = "delete" THEN 1 ELSE 0

\* a variation: setdefault, the payload's own is_deleted and lsn are kept
AnnotateAbsent(payload_data, operation, lsn_int) ==
    [x \in DOMAIN payload_data \cup {"is_deleted", "lsn"} |->
        IF x \in DOMAIN payload_data THEN payload_data[x]
        ELSE IF x = "is_deleted" THEN PyInt(IsDeleted(operation))
        ELSE PyBigInt(lsn_int)]

\* payload_data['is_deleted'] = ...; payload_data['lsn'] = ...
Annotate(payload_data, operation, lsn_int) ==
    Put(Put(payload_data, "is_deleted", PyInt(IsDeleted(operation))),
        "lsn", PyBigInt(lsn_int))

\* event.payload.copy() if isinstance(event.payload, dict) else {}
PayloadCopy(ev) == IF ev.payload[1] = "dict" THEN ev.payload[2] ELSE EmptyDict

\* moose/transformations/process_cdc_events.py: annotates a copy
TransformCopy(ev) ==
    With(DecodeSplit(ev.metadata.lsn), LAMBDA lsn_int :
        IF ~lsn_int.ok THEN Fail("MalformedPosition")
        ELSE Ok(Annotate(PayloadCopy(ev), ev.metadata.operation, lsn_int.val)))

\* payload_data = event.payload; payload_data[...] = ...: the event's own
\* payload now carries the annotation
AnnotatedInPlace(ev, payload_data) ==
    [ok |-> TRUE, val |-> payload_data,
     event |-> [ev EXCEPT !.payload = PyDict(payload_data)]]

\* sqlmodel-example/app/main.py: the result carries the event as the call
\* leaves it
TransformInPlace(ev) ==
    With(DecodeSplit(ev.metadata.lsn), LAMBDA lsn :
        IF ~lsn.ok THEN [ok |-> FALSE, err |-> "MalformedPosition", event |-> ev]
        ELSE IF ev.payload[1] # "dict"
             THEN [ok |-> FALSE, err |-> "PayloadNotMapping", event |-> ev]
        ELSE AnnotatedInPlace(ev, Annotate(ev.payload[2], ev.metadata.operation,
                                           lsn.val)))

\* sqlalchemy-example/app/transformations: model_dump, annotate, target_model(**)
TransformTyped(ev, target_model) ==
    With(DecodeWhole(ev.metadata.lsn), LAMBDA lsn :
        IF ~lsn.ok THEN Fail("MalformedPosition")
        ELSE Construct(target_model,
                       Annotate(ev.payload[2], ev.metadata.operation, lsn.val)))

(***************************************************************************)
(* process_cdc_events, one definition per variant.  The result says        *)
(* whether the call raised, with what, what it sent, and the event object  *)
(* as the call leaves it.                                                  *)
(***************************************************************************)
Raised(err, ev, transformed) ==
    [raised |-> TRUE, err |-> err, event |-> ev, sends |-> <<>>,
     processed |-> transformed]

Returned(ev, stream, record, transformed) ==
    [raised |-> FALSE, err |-> "none", event |-> ev,
     sends |-> <<[stream |-> stream, record |-> record]>>,
     processed |-> transformed]

\* the value transform_cdc_payload returned, or the exception it raised
Transformed(t) == IF t.ok THEN Ok(t.val) ELSE Fail(t.err)

NotTransformed == [ok |-> FALSE, err |-> "none"]

\* get_stream(name): the registered stream, or nothing
HasStream(reg, name) == name \in DOMAIN reg

\* a variation: the record is sent twice
SendModelTwice(ev, stream, model_instance, transformed) ==
    IF ~model_instance.ok THEN Raised(model_instance.err, ev, transformed)
    ELSE [Returned(ev, stream, model_instance.val, transformed)
              EXCEPT !.sends = @ \o @]

\* stream.send(model_instance), or the exception model_class(**...) raised
SendModel(ev, stream, model_instance, transformed) ==
    IF ~model_instance.ok THEN Raised(model_instance.err, ev, transformed)
    ELSE Returned(ev, stream, model_instance.val, transformed)

\* a variation: an event of a table without a stream is skipped
ProcessMooseSkipUnknown(ev, reg) ==
    With(TransformCopy(ev), LAMBDA processed_payload :
        IF ~processed_payload.ok
        THEN Raised(processed_payload.err, ev, processed_payload)
        ELSE IF ~HasStream(reg, ev.metadata.table)
             THEN [Raised("none", ev, processed_payload) EXCEPT !.raised = FALSE]
        ELSE With(Construct(reg[ev.metadata.table].model_type, processed_payload.val),
                  LAMBDA model_instance :
                      SendModel(ev, ev.metadata.table, model_instance,
                                processed_payload)))

ProcessMoose(ev, reg) ==
    With(TransformCopy(ev), LAMBDA processed_payload :
        IF ~processed_payload.ok
        THEN Raised(processed_payload.err, ev, processed_payload)
        ELSE IF ~HasStream(reg, ev.metadata.table)
             THEN Raised("UnknownTable", ev, processed_payload)
        ELSE With(Construct(reg[ev.metadata.table].model_type, processed_payload.val),
                  LAMBDA model_instance :
                      SendModel(ev, ev.metadata.table, model_instance,
                                processed_payload)))

\* the if/elif chain of sqlmodel-example/app/main.py
AppDispatch ==
    [product   |-> [model |-> "app.Product", stream |-> "product"],
     customer  |-> [model |-> "app.Customer", stream |-> "customer"],
     order     |-> [model |-> "app.Order", stream |-> "order"],
     orderitem |-> [model |-> "app.OrderItem", stream |-> "order_item"]]

ProcessApp(ev) ==
    With(TransformInPlace(ev), LAMBDA processed_payload :
        IF ~processed_payload.ok
        THEN Raised(processed_payload.err, processed_payload.event,
                    Transformed(processed_payload))
        ELSE IF ev.metadata.table \notin DOMAIN AppDispatch
             THEN Raised("UnknownTable", processed_payload.event,
                         Transformed(processed_payload))
        ELSE With(Construct(AppDispatch[ev.metadata.table].model, processed_payload.val),
                  LAMBDA model_instance :
                      SendModel(processed_payload.event,
                                AppDispatch[ev.metadata.table].stream, model_instance,
                                Transformed(processed_payload))))

\* the if/elif chain of sqlalchemy-example/app/transformations
SqlAlchemyDispatch ==
    [products    |-> [model |-> "ProductDimension", stream |-> "product_dimension"],
     customers   |-> [model |-> "CustomerDimension", stream |-> "customer_dimension"],
     orders      |-> [model |-> "OrderDimension", stream |-> "order_dimension"],
     order_items |-> [model |-> "OrderItemFact", stream |-> "order_item_fact"]]

\* a variation: an unknown table is logged and the call returns
ProcessSqlAlchemyLogUnknown(ev) ==
    IF ev.metadata.table \notin DOMAIN SqlAlchemyDispatch
    THEN [Raised("none", ev, NotTransformed) EXCEPT !.raised = FALSE]
    ELSE With(TransformTyped(ev, SqlAlchemyDispatch[ev.metadata.table].model),
              LAMBDA typed :
                  SendModel(ev, SqlAlchemyDispatch[ev.metadata.table].stream, typed,
                            typed))

ProcessSqlAlchemy(ev) ==
    IF ev.metadata.table \notin DOMAIN SqlAlchemyDispatch
    THEN Raised("UnknownTable", ev, NotTransformed)
    ELSE With(TransformTyped(ev, SqlAlchemyDispatch[ev.metadata.table].model),
              LAMBDA typed :
                  SendModel(ev, SqlAlchemyDispatch[ev.metadata.table].stream, typed,
                            typed))

ProcessCdcEvents(v, ev, reg) ==
    CASE v = "moose" -> ProcessMoose(ev, reg)
      [] v = "app" -> ProcessApp(ev)
      [] v = "sqlalchemy" -> ProcessSqlAlchemy(ev)

(***************************************************************************)
(* The envelopes the CDC source delivers.                                  *)
(***************************************************************************)
\* CdcMetadata.operation / RedpandaPgCdcMetadata.operation: the Literal the
\* runtime validates an envelope against before the consumer is called
Operations(v) == IF v = "sqlalchemy" THEN {"delete", "insert", "update", "read"}
                 ELSE {"insert", "update", "delete"}

OperationInputs == {"insert", "update", "delete", "read"}

TableInputs == {"customer", "product", "order", "orderitem",
                "customers", "products", "orders", "order_items", "warehouses"}

LsnSamples == {<<"0", "/", "5">>,
               <<"0", "/", "1", "A", "2", "B", "3", "C", "4", "D">>,
               <<"A", "/", "0">>,
               <<"5">>,
               <<>>,
               <<"0", "/", "G">>}

Iso == PyStr("2024-01-01T00:00:00")

\* a complete payload of each table, in the column names of the sqlmodel
\* example (camelCase) and of the sqlalchemy example (snake_case)
FullPayload(table) ==
    CASE table = "customer" ->
             [id |-> PyInt(42), email |-> PyStr("ann@example.com"), name |-> PyStr("Ann"),
              country |-> PyStr("UK"), city |-> PyStr("Leeds"), createdAt |-> Iso]
      [] table = "product" ->
             [id |-> PyInt(42), name |-> PyStr("Pen"), category |-> PyStr("office"),
              price |-> PyStr("9.99"), createdAt |-> Iso]
      [] table = "order" ->
             [id |-> PyInt(42), customerId |-> PyInt(42), orderDate |-> Iso,
              status |-> PyStr("pending"), total |-> PyStr("9.99")]
      [] table = "orderitem" ->
             [id |-> PyInt(42), orderId |-> PyInt(42), productId |-> PyInt(42),
              quantity |-> PyInt(42), price |-> PyStr("9.99")]
      [] table = "customers" ->
             [id |-> PyInt(42), email |-> PyStr("ann@example.com"), name |-> PyStr("Ann"),
              country |-> PyStr("UK"), city |-> PyStr("Leeds"), created_at |-> Iso]
      [] table = "products" ->
             [id |-> PyInt(42), name |-> PyStr("Pen"), category |-> PyStr("office"),
              price |-> PyStr("9.99"), created_at |-> Iso]
      [] table = "orders" ->
             [id |-> PyInt(42), customer_id |-> PyInt(42), order_date |-> Iso,
              status |-> PyStr("pending"), total |-> PyStr("9.99")]
      [] table = "order_items" ->
             [id |-> PyInt(42), order_id |-> PyInt(42), product_id |-> PyInt(42),
              quantity |-> PyInt(42), price |-> PyStr("9.99")]
      [] OTHER -> [id |-> PyInt(42), name |-> PyStr("Depot")]

SampleValues == {PyNone, PyInt(0), PyInt(42), PyStr(""), PyStr("a"), PyStr("9.99"), Iso}

Without(d, key) == [x \in DOMAIN d \ {key} |-> d[x]]

\* a delete event's payload: the primary key and None for every other column
NullsExceptId(d) == [x \in DOMAIN d |-> IF x = "id" THEN d[x] ELSE PyNone]

PayloadInputs(table) ==
    LET full == FullPayload(table)
    IN  {PyDict([full EXCEPT ![f] = val]) : f \in DOMAIN full, val \in SampleValues}
        \cup {PyDict(Without(full, f)) : f \in DOMAIN full}
        \cup {PyDict(NullsExceptId(full)),
              PyDict(Put(Put(full, "is_deleted", PyInt(1)), "lsn", PyInt(7))),
              PyNone, PyList}

Envelope(table, operation, lsn, payload) ==
    [metadata |-> [table |-> table, operation |-> operation, lsn |-> lsn],
     payload |-> payload]

\* the sqlalchemy example's event is flat: its payload is the mapping of
\* the fields beside _metadata
Envelopes(v) ==
    UNION {{Envelope(t, o, l, p) :
                o \in OperationInputs, l \in LsnSamples,
                p \in {q \in PayloadInputs(t) : v = "sqlalchemy" => q[1] = "dict"}} :
           t \in TableInputs}

NoEvent == [metadata |-> [table |-> "", operation |-> "", lsn |-> <<>>],
            payload |-> PyNone]

NoRecord == [ok |-> FALSE, err |-> "none"]

NoOutcome == [kind |-> "none", err |-> "none"]

Variants == {"moose", "app", "sqlalchemy", "test"}

NoAgain == [between |-> NoEvent, result |-> NotTransformed]

NotNormalized == [cls |-> "", input |-> EmptyDict, output |-> EmptyDict]

\* the destination tables of the variant's streams, all empty
EmptyTables(v) ==
    [t \in {StartupRegistry(v)[x].destination : x \in DOMAIN StartupRegistry(v)} |-> <<>>]

(***************************************************************************)
(* Startup.  The runtime imports the app's module; the statements that     *)
(* declare a table, a stream or a dead-letter queue, set a stream's        *)
(* destination or add a consumer run in the order of the source, imports   *)
(* flattened.  target is the destination of a stream, or the dead-letter   *)
(* queue of a consumer; "" when there is none.                             *)
(***************************************************************************)
Statement(op, name, model_type, target) ==
    [op |-> op, name |-> name, model_type |-> model_type, target |-> target]

\* a variation: OrderItemStream.config.destination is set after the consumer
\* of the source stream is added
MooseMainLateDestination ==
    <<Statement("Stream", "sqlmodel_cdc_events", "RawCdcPayload", ""),
      Statement("DeadLetterQueue", "unknown_event_dead_letter", "RawCdcPayload", ""),
      Statement("OlapTable", "customer", "moose.Customer", ""),
      Statement("OlapTable", "product", "moose.Product", ""),
      Statement("OlapTable", "order", "moose.Order", ""),
      Statement("OlapTable", "orderitem", "moose.OrderItem", ""),
      Statement("Stream", "customer", "moose.Customer", ""),
      Statement("Stream", "product", "moose.Product", ""),
      Statement("Stream", "order", "moose.Order", ""),
      Statement("Stream", "orderitem", "moose.OrderItem", ""),
      Statement("destination", "customer", "", "customer"),
      Statement("destination", "product", "", "product"),
      Statement("destination", "order", "", "order"),
      Statement("add_consumer", "sqlmodel_cdc_events", "", "unknown_event_dead_letter"),
      Statement("destination", "orderitem", "", "orderitem"),
      Statement("add_consumer", "customer", "", ""),
      Statement("add_consumer", "product", "", ""),
      Statement("add_consumer", "unknown_event_dead_letter", "", "")>>

\* a variation: the stream of the order items is named as in app/main.py
MooseMainSnakeCaseStream ==
    <<Statement("Stream", "sqlmodel_cdc_events", "RawCdcPayload", ""),
      Statement("DeadLetterQueue", "unknown_event_dead_letter", "RawCdcPayload", ""),
      Statement("OlapTable", "customer", "moose.Customer", ""),
      Statement("OlapTable", "product", "moose.Product", ""),
      Statement("OlapTable", "order", "moose.Order", ""),
      Statement("OlapTable", "orderitem", "moose.OrderItem", ""),
      Statement("Stream", "customer", "moose.Customer", ""),
      Statement("Stream", "product", "moose.Product", ""),
      Statement("Stream", "order", "moose.Order", ""),
      Statement("Stream", "order_item", "moose.OrderItem", ""),
      Statement("destination", "customer", "", "customer"),
      Statement("destination", "product", "", "product"),
      Statement("destination", "order", "", "order"),
      Statement("destination", "order_item", "", "orderitem"),
      Statement("add_consumer", "sqlmodel_cdc_events", "", "unknown_event_dead_letter"),
      Statement("add_consumer", "customer", "", ""),
      Statement("add_consumer", "product", "", ""),
      Statement("add_consumer", "unknown_event_dead_letter", "", "")>>

\* sqlmodel-example/moose/main.py with sources/cdc_event_steam.py,
\* sinks/tables.py and sinks/streams.py
MooseMain ==
    <<Statement("Stream", "sqlmodel_cdc_events", "RawCdcPayload", ""),
      Statement("DeadLetterQueue", "unknown_event_dead_letter", "RawCdcPayload", ""),
      Statement("OlapTable", "customer", "moose.Customer", ""),
      Statement("OlapTable", "product", "moose.Product", ""),
      Statement("OlapTable", "order", "moose.Order", ""),
      Statement("OlapTable", "orderitem", "moose.OrderItem", ""),
      Statement("Stream", "customer", "moose.Customer", ""),
      Statement("Stream", "product", "moose.Product", ""),
      Statement("Stream", "order", "moose.Order", ""),
      Statement("Stream", "orderitem", "moose.OrderItem", ""),
      Statement("destination", "customer", "", "customer"),
      Statement("destination", "product", "", "product"),
      Statement("destination", "order", "", "order"),
      Statement("destination", "orderitem", "", "orderitem"),
      Statement("add_consumer", "sqlmodel_cdc_events", "", "unknown_event_dead_letter"),
      Statement("add_consumer", "customer", "", ""),
      Statement("add_consumer", "product", "", ""),
      Statement("add_consumer", "unknown_event_dead_letter", "", "")>>

\* sqlmodel-example/app/main.py
AppMain ==
    <<Statement("Stream", "sqlmodel_cdc_events", "RawCdcPayload", ""),
      Statement("OlapTable", "dim_customer", "app.Customer", ""),
      Statement("OlapTable", "dim_product", "app.Product", ""),
      Statement("OlapTable", "dim_order", "app.Order", ""),
      Statement("OlapTable", "fact_order_item", "app.OrderItem", ""),
      Statement("OlapTable", "fact_order", "app.OrderFact", ""),
      Statement("DeadLetterQueue", "unknown_event_dead_letter", "RawCdcPayload", ""),
      Statement("Stream", "customer", "app.Customer", "dim_customer"),
      Statement("Stream", "product", "app.Product", "dim_product"),
      Statement("Stream", "order", "app.Order", "dim_order"),
      Statement("Stream", "order_item", "app.OrderItem", "fact_order_item"),
      Statement("add_consumer", "sqlmodel_cdc_events", "", "unknown_event_dead_letter"),
      Statement("add_consumer", "customer", "", ""),
      Statement("add_consumer", "product", "", ""),
      Statement("add_consumer", "unknown_event_dead_letter", "", "")>>

\* sqlalchemy-example/app/main.py: it imports app.models,
\* app.sources.external_topics, app.sinks.tables and app.sinks.topics; its
\* import of app.transformations is commented out
SqlAlchemyMain ==
    <<Statement("Stream", "sqlalchemy_cdc_events", "SqlAlchemyCdcEvents", ""),
      Statement("OlapTable", "dim_customer", "CustomerDimension", ""),
      Statement("OlapTable", "dim_product", "ProductDimension", ""),
      Statement("OlapTable", "dim_order", "OrderDimension", ""),
      Statement("OlapTable", "fact_order_item", "OrderItemFact", ""),
      Statement("OlapTable", "fact_order", "OrderFact", ""),
      Statement("DeadLetterQueue", "unknown_event_dead_letter", "RedpandaPgCdcPayload", ""),
      Statement("Stream", "customer_dimension", "CustomerDimension", "dim_customer"),
      Statement("Stream", "product_dimension", "ProductDimension", "dim_product"),
      Statement("Stream", "order_dimension", "OrderDimension", "dim_order"),
      Statement("Stream", "order_item_fact", "OrderItemFact", "fact_order_item")>>

\* sqlalchemy-example/app/transformations/__init__.py, when it is imported:
\* the modules above, then its own add_consumer calls
SqlAlchemyTransformations ==
    SqlAlchemyMain \o
    <<Statement("add_consumer", "sqlalchemy_cdc_events", "", "unknown_event_dead_letter"),
      Statement("add_consumer", "customer_dimension", "", ""),
      Statement("add_consumer", "product_dimension", "", ""),
      Statement("add_consumer", "unknown_event_dead_letter", "", "")>>

\* the module the runtime imports
Main(v) ==
    CASE v = "moose" -> MooseMain
      [] v = "app" -> AppMain
      [] v = "sqlalchemy" -> SqlAlchemyMain
      [] OTHER -> <<>>

\* the module that defines the variant's process_cdc_events
ConsumerModule(v) == IF v = "sqlalchemy" THEN SqlAlchemyTransformations ELSE Main(v)

\* the stream the CDC events arrive on
SourceStream(v) == IF v = "sqlalchemy" THEN "sqlalchemy_cdc_events" ELSE "sqlmodel_cdc_events"

NotStarted == [pc |-> 1, tables |-> EmptyDict, consumer |-> FALSE, dead_letter_queue |-> FALSE]

\* the typed streams: the source stream is no sink of the consumer
StreamsAfter(v, reg, st) ==
    CASE st.op = "Stream" /\ st.name # SourceStream(v) ->
             Put(reg, st.name, [model_type |-> st.model_type, destination |-> st.target])
      [] st.op = "destination" /\ st.name \in DOMAIN reg ->
             [reg EXCEPT ![st.name].destination = st.target]
      [] OTHER -> reg

StartupAfter(v, s, st) ==
    CASE st.op = "OlapTable" ->
             [s EXCEPT !.pc = @ + 1, !.tables = Put(@, st.name, st.model_type)]
      [] st.op = "add_consumer" /\ st.name = SourceStream(v) ->
             [s EXCEPT !.pc = @ + 1, !.consumer = TRUE, !.dead_letter_queue = st.target # ""]
      [] OTHER -> [s EXCEPT !.pc = @ + 1]

RECURSIVE Imported(_, _, _)
\* the registry and the startup state once every statement of a module has run
Imported(v, module, state) ==
    IF module = <<>> THEN state
    ELSE Imported(v, Tail(module),
                  [registry |-> StreamsAfter(v, state.registry, Head(module)),
                   startup |-> [StartupAfter(v, state.startup, Head(module))
                                    EXCEPT !.pc = state.startup.pc]])

\* every statement of the consumer's module has run
Started(v) ==
    [Imported(v, ConsumerModule(v), [registry |-> EmptyDict, startup |-> NotStarted]).startup
         EXCEPT !.pc = Len(Main(v)) + 1]

\* the consumer processes that run side by side
MaxWorkers == 2

NoResult == Raised("none", NoEvent, NotTransformed)

IdleWorker == [pc |-> "idle", arrived |-> NoEvent, result |-> NoResult]

IdleWorkers == [w \in 1..MaxWorkers |-> IdleWorker]

Init ==
    /\ variant \in Variants
    /\ registry = StartupRegistry(variant)
    /\ phase = "idle"
    /\ arrived = NoEvent
    /\ event = NoEvent
    /\ processed = NotTransformed
    /\ outcome = NoOutcome
    /\ typedSent = <<>>
    /\ dlqSent = <<>>
    /\ testDimension = NoRecord
    /\ again = NoAgain
    /\ normalized = NotNormalized
    /\ stored = EmptyTables(variant)
    /\ startup = Started(variant)
    /\ workers = IdleWorkers

(***************************************************************************)
(* The hosting runtime (moose_lib) around the consumer registered with     *)
(* add_consumer(process_cdc_events, ConsumerConfig(dead_letter_queue=...)).*)
(***************************************************************************)
\* the next message of the source topic parses into the consumer's input
\* type; for the sqlalchemy consumer that is an event whose _metadata is
\* readable and whose other fields are the payload
Receive(envelopes) ==
    /\ variant # "test"
    /\ phase = "idle"
    /\ \E env \in envelopes :
        /\ env.metadata.operation \in Operations(variant)
        /\ arrived' = env
        /\ event' = env
    /\ phase' = "received"
    /\ UNCHANGED <<variant, registry, startup, workers, again, normalized, stored, processed, outcome, typedSent, dlqSent,
                   testDimension>>

\* the next message does not validate as the input type: no consumer call
Reject(envelopes) ==
    /\ variant # "test"
    /\ phase = "idle"
    /\ \E env \in envelopes :
        /\ env.metadata.operation \notin Operations(variant)
        /\ arrived' = env
    /\ outcome' = [kind |-> "rejected", err |-> "EnvelopeValidation"]
    /\ phase' = "done"
    /\ UNCHANGED <<variant, registry, startup, workers, again, normalized, stored, event, processed, typedSent, dlqSent, testDimension>>

\* the runtime calls process_cdc_events(event); the call runs to its end
Process ==
    /\ phase = "received"
    /\ \E r \in {ProcessCdcEvents(variant, event, registry)} :
           /\ event' = r.event
           /\ processed' = r.processed
           /\ typedSent' = typedSent \o r.sends
           /\ outcome' = [kind |-> IF r.raised THEN "raised" ELSE "returned",
                          err |-> r.err]
           /\ phase' = IF r.raised THEN "raised" ELSE "returned"
    /\ UNCHANGED <<variant, registry, startup, workers, again, normalized, stored, arrived, dlqSent, testDimension>>

\* the consumer returned: the message is done
Ack ==
    /\ phase = "returned"
    /\ phase' = "done"
    /\ UNCHANGED <<variant, registry, startup, workers, again, normalized, stored, arrived, event, processed, outcome, typedSent,
                   dlqSent, testDimension>>

\* a variation: the consumer has no dead_letter_queue
DeadLetterDropped ==
    /\ phase = "raised"
    /\ phase' = "done"
    /\ UNCHANGED <<variant, registry, startup, workers, again, normalized, stored, arrived, event, processed, outcome, typedSent,
                   dlqSent, testDimension>>

\* the consumer raised: the runtime publishes the event it holds to the
\* consumer's dead_letter_queue.  The consumer was handed that same object,
\* so what the consumer wrote into it is published with it.
DeadLetter ==
    /\ phase = "raised"
    /\ dlqSent' = Append(dlqSent, event)
    /\ phase' = "done"
    /\ UNCHANGED <<variant, registry, startup, workers, again, normalized, stored, arrived, event, processed, outcome, typedSent,
                   testDimension>>

\* the runtime turns to the next message; what was observed of the last
\* delivery is dropped
Poll ==
    /\ phase = "done"
    /\ phase' = "idle"
    /\ arrived' = NoEvent
    /\ event' = NoEvent
    /\ processed' = NotTransformed
    /\ outcome' = NoOutcome
    /\ typedSent' = <<>>
    /\ dlqSent' = <<>>
    /\ again' = NoAgain
    /\ UNCHANGED <<variant, registry, startup, workers, normalized, stored, testDimension>>

(***************************************************************************)
(* test_type_safety.py, test_cdc_transformation: the CustomerDimension it  *)
(* builds from a cdc_event, for any operation and lsn of the event.        *)
(***************************************************************************)
TestDimension(operation, lsn) ==
    With(DecodeTest(lsn), LAMBDA lsn_int :
        IF ~lsn_int.ok THEN Fail("MalformedPosition")
        ELSE Construct("CustomerDimension",
                 [id |-> PyInt(100), email |-> PyStr("alice@example.com"),
                  name |-> PyStr("Alice Johnson"), country |-> PyStr("UK"),
                  city |-> PyStr("London"), created_at |-> PyDatetime(1700000000),
                  is_deleted |-> PyInt(IsDeleted(operation)),
                  lsn |-> PyBigInt(lsn_int.val)]))

TestCdcTransformation(operations, lsns) ==
    /\ variant = "test"
    /\ testDimension = NoRecord
    /\ \E operation \in operations, lsn \in lsns :
        /\ arrived' = Envelope("customers", operation, lsn, PyDict(EmptyDict))
        /\ testDimension' = TestDimension(operation, lsn)
    /\ UNCHANGED <<variant, registry, startup, workers, again, normalized, stored, phase, event, processed, outcome, typedSent,
                   dlqSent>>

Next ==
    \/ Receive(Envelopes(variant))
    \/ Reject(Envelopes(variant))
    \/ Process
    \/ Ack
    \/ DeadLetter
    \/ Poll
    \/ TestCdcTransformation(OperationInputs, LsnSamples)

Spec == Init /\ [][Next]_vars

(***************************************************************************)
(* The same machine fed every position string up to MaxLsnLen characters   *)
(* of LsnAlphabet, on an insert of a complete customer row.                *)
(***************************************************************************)
MaxLsnLen == 4

LsnAlphabet == {"0", "1", "A", "/", "G", "-", "x"}

LsnStrings ==
    UNION {[1..n -> LsnAlphabet] : n \in 0..MaxLsnLen}
    \cup LsnSamples
    \cup {<<" ", "1", "/", "1", "_", "0">>, <<"+", "1">>, <<"0", "X", "_", "f">>}

CustomerSourceTable(v) == IF v = "sqlalchemy" THEN "customers" ELSE "customer"

DecodeEnvelopes(v) ==
    {Envelope(CustomerSourceTable(v), "insert", l, PyDict(FullPayload(CustomerSourceTable(v)))) :
         l \in LsnStrings}

NextDecode ==
    \/ Receive(DecodeEnvelopes(variant))
    \/ Process
    \/ Ack
    \/ DeadLetter
    \/ Poll
    \/ TestCdcTransformation({"insert"}, LsnStrings)

SpecDecode == Init /\ [][NextDecode]_vars

(***************************************************************************)
(* transform_cdc_payload called on its own, twice on the same event        *)
(* object, in the two sqlmodel-example variants.                           *)
(***************************************************************************)
\* what one call gives, and the event object as the call leaves it
TransformCdcPayload(v, ev) ==
    IF v = "app" THEN TransformInPlace(ev)
    ELSE With(TransformCopy(ev), LAMBDA payload_data :
             IF payload_data.ok
             THEN [ok |-> TRUE, val |-> payload_data.val, event |-> ev]
             ELSE [ok |-> FALSE, err |-> payload_data.err, event |-> ev])

CallTransform ==
    /\ phase = "received"
    /\ variant \in {"moose", "app"}
    /\ \E r \in {TransformCdcPayload(variant, event)} :
           /\ event' = r.event
           /\ processed' = Transformed(r)
    /\ phase' = "transformed"
    /\ UNCHANGED <<variant, registry, startup, workers, again, normalized, stored, arrived, outcome,
                   typedSent, dlqSent, testDimension>>

CallTransformAgain ==
    /\ phase = "transformed"
    /\ \E r \in {TransformCdcPayload(variant, event)} :
           /\ again' = [between |-> event, result |-> Transformed(r)]
           /\ event' = r.event
    /\ phase' = "done"
    /\ UNCHANGED <<variant, registry, startup, workers, normalized, stored, arrived, processed, outcome,
                   typedSent, dlqSent, testDimension>>

NextTransform ==
    \/ Receive(Envelopes(variant))
    \/ CallTransform
    \/ CallTransformAgain
    \/ Poll

SpecTransform == Init /\ [][NextTransform]_vars

(***************************************************************************)
(* replace_none_with_type_defaults called on its own: the classes that     *)
(* derive from CdcOlapModelBase, on annotated mappings in which every      *)
(* other key is absent, None, or holds one value.                          *)
(***************************************************************************)
NormalizedClasses == {"moose.Customer", "moose.Product", "moose.Order", "moose.OrderItem"}

\* the keys a payload of the class's table can hold beside the annotation;
\* createdAt is a column of the source tables that no OLAP class declares
BusinessKeys(cls) == (DOMAIN ModelFields(cls) \ {"is_deleted", "lsn"}) \cup {"createdAt"}

PresentValues == {PyInt(0), PyBool(FALSE), PyStr(""), PyInt(42)}

NormalizerInputs(cls) ==
    {[x \in present \cup {"is_deleted", "lsn"} |->
          IF x = "is_deleted" THEN PyInt(1)
          ELSE IF x = "lsn" THEN PyBigInt(Big(5))
          ELSE IF x \in nulls THEN PyNone ELSE val] :
         present \in SUBSET BusinessKeys(cls), nulls \in SUBSET BusinessKeys(cls),
         val \in PresentValues}

CallNormalizer ==
    /\ variant = "moose"
    /\ normalized = NotNormalized
    /\ \E cls \in NormalizedClasses :
           \E data \in NormalizerInputs(cls) :
               normalized' = [cls |-> cls, input |-> data,
                              output |-> ReplaceNoneWithTypeDefaults(cls, data)]
    /\ UNCHANGED <<variant, registry, startup, workers, phase, arrived, event, processed, outcome, typedSent,
                   dlqSent, testDimension, again, stored>>

NextNormalize == CallNormalizer

SpecNormalize == Init /\ [][NextNormalize]_vars

(***************************************************************************)
(* The destination tables.  Every typed stream has a destination table     *)
(* (moose/main.py 17-20, app/main.py 158-184, app/sinks/topics.py), and    *)
(* every table is a ReplacingMergeTree with ver = lsn and is_deleted =     *)
(* is_deleted, ordered by order_by_fields.  A query with FINAL returns, of *)
(* the rows that agree on the sorting key, the one with the highest ver    *)
(* (the last inserted of equals), and none when that row has is_deleted 1. *)
(***************************************************************************)
MaxStored == 4

order_by_fields(v, table) ==
    CASE table = "fact_order_item" /\ v = "app" -> <<"id", "orderId", "productId">>
      [] table = "fact_order_item" /\ v # "app" -> <<"id", "order_id", "product_id">>
      [] OTHER -> <<"id">>

SortingKey(row, order_by) == [i \in 1..Len(order_by) |-> row[order_by[i]]]

RECURSIVE MagLess(_, _)
\* canonical magnitudes: the longer is the greater, then the most
\* significant digit that differs decides
MagLess(a, b) ==
    IF Len(a) # Len(b) THEN Len(a) < Len(b)
    ELSE IF a = <<>> THEN FALSE
    ELSE IF a[Len(a)] # b[Len(b)] THEN a[Len(a)] < b[Len(b)]
    ELSE MagLess(SubSeq(a, 1, Len(a) - 1), SubSeq(b, 1, Len(b) - 1))

\* the order of the ver column
VerLess(x, y) ==
    IF x[2].neg # y[2].neg THEN x[2].neg
    ELSE IF x[2].neg THEN MagLess(y[2].mag, x[2].mag)
    ELSE MagLess(x[2].mag, y[2].mag)

\* a variation: a plain MergeTree, which keeps every row
MergeTreeEngine(rows, order_by, ver, is_deleted) ==
    {i \in DOMAIN rows : rows[i][is_deleted] = PyInt(0)}

\* the positions, in insertion order, of the rows a FINAL query returns
ReplacingMergeTreeEngine(rows, order_by, ver, is_deleted) ==
    {i \in DOMAIN rows :
        /\ \A j \in DOMAIN rows :
               SortingKey(rows[j], order_by) = SortingKey(rows[i], order_by)
                   => \/ VerLess(rows[j][ver], rows[i][ver])
                      \/ rows[j][ver] = rows[i][ver] /\ j <= i
        /\ rows[i][is_deleted] = PyInt(0)}

\* what a query of the variant's table returns, each row with its count
SelectFinal(v, table, rows) ==
    LET kept == ReplacingMergeTreeEngine(rows, order_by_fields(v, table), "lsn", "is_deleted")
    IN  [r \in {rows[i] : i \in kept} |-> Cardinality({i \in kept : rows[i] = r})]

RECURSIVE Insert(_, _, _)
\* the stream-to-table sync: every record of a stream is inserted in the
\* stream's destination
Insert(tables, streams, sends) ==
    IF sends = <<>> THEN tables
    ELSE Insert([tables EXCEPT ![streams[Head(sends).stream].destination]
                                    = Append(@, Head(sends).record.fields)],
                streams, Tail(sends))

RECURSIVE CountRows(_, _)
CountRows(tables, names) ==
    IF names = {} THEN 0
    ELSE LET t == CHOOSE x \in names : TRUE
         IN  Len(tables[t]) + CountRows(tables, names \ {t})

\* the source's log position of the n-th change, as each variant reads it
Position(v, n) ==
    IF v = "sqlalchemy" THEN <<HexDigits[n + 1]>> ELSE <<"0", "/", HexDigits[n + 1]>>

OrderItemSourceTable(v) == IF v = "sqlalchemy" THEN "order_items" ELSE "orderitem"

ProductKey(v) == IF v = "sqlalchemy" THEN "product_id" ELSE "productId"

\* the changes of one order item and of one customer: the item is
\* inserted, moved to another product and deleted; the customer is
\* inserted and deleted, its delete carrying the key only
ChangeHistory(v) ==
    LET item == FullPayload(OrderItemSourceTable(v))
        moved == [item EXCEPT ![ProductKey(v)] = PyInt(43)]
        customer == FullPayload(CustomerSourceTable(v))
    IN  {Envelope(OrderItemSourceTable(v), "insert", Position(v, 1), PyDict(item)),
         Envelope(OrderItemSourceTable(v), "update", Position(v, 2), PyDict(moved)),
         Envelope(OrderItemSourceTable(v), "delete", Position(v, 3), PyDict(moved)),
         Envelope(CustomerSourceTable(v), "insert", Position(v, 1), PyDict(customer)),
         Envelope(CustomerSourceTable(v), "delete", Position(v, 3),
                  PyDict(NullsExceptId(customer)))}

\* at-least-once delivery: any change of the history, in any order, any
\* number of times
ReceiveChange ==
    /\ CountRows(stored, DOMAIN stored) < MaxStored
    /\ Receive(ChangeHistory(variant))

\* the consumer returned and what it sent reaches the destination tables
Sync ==
    /\ phase = "returned"
    /\ stored' = Insert(stored, registry, typedSent)
    /\ phase' = "done"
    /\ UNCHANGED <<variant, registry, startup, workers, again, normalized, arrived, event, processed, outcome,
                   typedSent, dlqSent, testDimension>>

NextStore == ReceiveChange \/ Process \/ Sync \/ DeadLetter \/ Poll

SpecStore == Init /\ [][NextStore]_vars

(***************************************************************************)
(* The app from the import of its module on.  The runtime delivers an      *)
(* event of the source stream once the stream has a consumer; an event of  *)
(* a source stream that has none when the import is over stays unconsumed. *)
(***************************************************************************)
InitStartup ==
    /\ variant \in {"moose", "app", "sqlalchemy"}
    /\ registry = EmptyDict
    /\ startup = NotStarted
    /\ workers = IdleWorkers
    /\ phase = "idle"
    /\ arrived = NoEvent
    /\ event = NoEvent
    /\ processed = NotTransformed
    /\ outcome = NoOutcome
    /\ typedSent = <<>>
    /\ dlqSent = <<>>
    /\ testDimension = NoRecord
    /\ again = NoAgain
    /\ normalized = NotNormalized
    /\ stored = EmptyTables(variant)

\* the events of every table and operation, with the table's complete payload
StartupEnvelopes(v) ==
    {env \in Envelopes(v) : env.payload = PyDict(FullPayload(env.metadata.table))}

\* the next statement of the module runs
Import ==
    /\ startup.pc <= Len(Main(variant))
    /\ phase \in {"idle", "done"}
    /\ registry' = StreamsAfter(variant, registry, Main(variant)[startup.pc])
    /\ startup' = StartupAfter(variant, startup, Main(variant)[startup.pc])
    /\ UNCHANGED <<variant, workers, phase, arrived, event, processed, outcome, typedSent,
                   dlqSent, testDimension, again, normalized, stored>>

ReceiveStarted ==
    /\ startup.consumer
    /\ Receive(StartupEnvelopes(variant))

\* no consumer was added to the source stream: the event is not processed
Unconsumed ==
    /\ startup.pc > Len(Main(variant))
    /\ ~startup.consumer
    /\ phase = "idle"
    /\ \E env \in StartupEnvelopes(variant) :
           /\ env.metadata.operation \in Operations(variant)
           /\ arrived' = env
    /\ outcome' = [kind |-> "unconsumed", err |-> "none"]
    /\ phase' = "done"
    /\ UNCHANGED <<variant, registry, startup, workers, event, processed, typedSent, dlqSent,
                   testDimension, again, normalized, stored>>

NextStartup ==
    Import \/ ReceiveStarted \/ Unconsumed \/ Process \/ Ack \/ DeadLetter \/ Poll

SpecStartup == InitStartup /\ [][NextStartup]_vars

(***************************************************************************)
(* Concurrent consumers.  Each worker takes one event nobody else took and *)
(* calls process_cdc_events on it.  The call reads the registry and works  *)
(* on its own locals (the event, processed_payload, model_instance); what  *)
(* it shares with the other workers are the typed streams it sends to and  *)
(* the dead-letter queue the runtime publishes to when it raised.          *)
(***************************************************************************)
ConcurrentEvents(v) ==
    IF v = "test" THEN {}
    ELSE ChangeHistory(v)
         \cup {Envelope("warehouses", "insert", Position(v, 4), PyDict(FullPayload("warehouses")))}

Taken == {workers[w].arrived : w \in {x \in DOMAIN workers : workers[x].pc # "idle"}}

\* a variation: the outcome of the call is kept in one module-level slot
ModuleLevel(ws, w) == ws[1].result

\* the locals of the worker's own call
Locals(ws, w) == ws[w].result

Take(w) ==
    /\ workers[w].pc = "idle"
    /\ \E env \in ConcurrentEvents(variant) \ Taken :
           workers' = [workers EXCEPT ![w] = [pc |-> "received", arrived |-> env,
                                              result |-> NoResult]]
    /\ UNCHANGED <<variant, registry, startup, phase, arrived, event, processed, outcome,
                   typedSent, dlqSent, testDimension, again, normalized, stored>>

\* the body of process_cdc_events up to stream.send or the raise
Call(w) ==
    /\ workers[w].pc = "received"
    /\ \E r \in {ProcessCdcEvents(variant, workers[w].arrived, registry)} :
           workers' = [workers EXCEPT ![w].pc = "called", ![w].result = r]
    /\ UNCHANGED <<variant, registry, startup, phase, arrived, event, processed, outcome,
                   typedSent, dlqSent, testDimension, again, normalized, stored>>

\* stream.send of the record, or the runtime's dead-lettering of the event
Publish(w) ==
    /\ workers[w].pc = "called"
    /\ \E r \in {Locals(workers, w)} :
           /\ typedSent' = typedSent \o r.sends
           /\ dlqSent' = IF r.raised THEN Append(dlqSent, r.event) ELSE dlqSent
    /\ workers' = [workers EXCEPT ![w].pc = "done"]
    /\ UNCHANGED <<variant, registry, startup, phase, arrived, event, processed, outcome,
                   testDimension, again, normalized, stored>>

NextConcurrent ==
    \/ \E w \in DOMAIN workers : Take(w)
    \/ \E w \in DOMAIN workers : Call(w)
    \/ \E w \in DOMAIN workers : Publish(w)

SpecConcurrent == Init /\ [][NextConcurrent]_vars

(***************************************************************************)
(* Properties.  arrived is the event as the source delivered it; the       *)
(* consumer has been called once the phase is past "received".             *)
(***************************************************************************)
Called == phase \in {"returned", "raised", "done"} /\ outcome.kind # "rejected"

Delivered == phase = "done" /\ outcome.kind # "rejected"

\* the source tables each variant has a destination for, and that
\* destination's stream
SinkOfTable(v) ==
    CASE v = "moose" ->
             [customer |-> "customer", product |-> "product", order |-> "order",
              orderitem |-> "orderitem"]
      [] v = "app" ->
             [customer |-> "customer", product |-> "product", order |-> "order",
              orderitem |-> "order_item"]
      [] v = "sqlalchemy" ->
             [customers |-> "customer_dimension", products |-> "product_dimension",
              orders |-> "order_dimension", order_items |-> "order_item_fact"]
      [] OTHER -> EmptyDict

KnownTable == arrived.metadata.table \in DOMAIN SinkOfTable(variant)

\* a non-empty string of hexadecimal digits
IsHex(s) == s # <<>> /\ \A i \in 1..Len(s) : IsHexDigit(s[i])

\* "<high>/<low>", both hexadecimal
TwoPartHex(s) ==
    \E k \in 1..Len(s) :
        s[k] = "/" /\ IsHex(SubSeq(s, 1, k - 1)) /\ IsHex(SubSeq(s, k + 1, Len(s)))

\* the number a string of hexadecimal digits writes
HexNumber(s) == MkInt(FALSE, [i \in 1..Len(s) |-> HexVal(s[Len(s) + 1 - i])])

\* (high << 32) | low of a "<high>/<low>" string
TwoPartNumber(s) ==
    LET k == CHOOSE i \in 1..Len(s) : s[i] = "/"
    IN  IntOr(IntShl(HexNumber(SubSeq(s, 1, k - 1))),
              HexNumber(SubSeq(s, k + 1, Len(s))))

\* the position format the variant's documentation gives
WellFormedPosition ==
    IF variant = "sqlalchemy" THEN IsHex(arrived.metadata.lsn)
    ELSE TwoPartHex(arrived.metadata.lsn)

\* a high or low part that is empty or holds a character that is no
\* hexadecimal digit
MalformedPosition ==
    LET parts == SplitSlash(arrived.metadata.lsn)
    IN  \E i \in 1..Len(parts) : ~IsHex(parts[i])

\* the annotation the transform put on its output
Annotation(key) ==
    IF variant = "sqlalchemy" THEN processed.val.fields[key] ELSE processed.val[key]

\* C1: an event whose table has no registered destination publishes
\* exactly one message, the raw event, to the dead-letter sink and none to
\* a typed sink, and the call raises (with the unknown-table error once the
\* position has decoded).  Stated of the registry-dispatch consumer and the
\* sqlalchemy consumer.
C1_UnknownTableDeadLettered ==
    (Delivered /\ variant \in {"moose", "sqlalchemy"} /\ ~KnownTable)
        => /\ outcome.kind = "raised"
           /\ typedSent = <<>>
           /\ dlqSent = <<arrived>>
           /\ WellFormedPosition => outcome.err = "UnknownTable"

C1_Witness ==
    /\ Delivered
    /\ variant = "moose"
    /\ arrived.metadata.table = "warehouses"
    /\ outcome.err = "UnknownTable"
    /\ dlqSent = <<arrived>>
    /\ typedSent = <<>>

C3_DeleteWithNullsRouted ==
    (/\ Delivered
     /\ variant = "moose"
     /\ KnownTable
     /\ WellFormedPosition
     /\ arrived.metadata.operation = "delete"
     /\ arrived.payload = PyDict(NullsExceptId(FullPayload(arrived.metadata.table))))
        => /\ outcome.kind = "returned"
           /\ Len(typedSent) = 1
           /\ typedSent[1].record.fields.is_deleted = PyInt(1)
           /\ typedSent[1].record.fields.lsn
                  = PyBigInt(TwoPartNumber(arrived.metadata.lsn))
           /\ dlqSent = <<>>

\* C4: what reaches the dead-letter sink is the event as it arrived, with
\* no isDeleted or position annotation.
C4_DeadLetteredIsOriginal ==
    (Delivered /\ outcome.kind = "raised")
        => /\ Len(dlqSent) = 1
           /\ dlqSent[1] = arrived

\* C5: when the call fails on a malformed position or on schema
\* validation, no typed record is published and the raw event is
\* dead-lettered exactly once.  Stated of the registry-dispatch consumer
\* and the sqlalchemy consumer.
C5_FailureDeadLettersOnce ==
    (/\ Delivered
     /\ variant \in {"moose", "sqlalchemy"}
     /\ outcome.err \in {"MalformedPosition", "SchemaValidation"})
        => /\ outcome.kind = "raised"
           /\ typedSent = <<>>
           /\ dlqSent = <<arrived>>

C5_Witness ==
    /\ Delivered
    /\ variant = "sqlalchemy"
    /\ KnownTable
    /\ WellFormedPosition
    /\ outcome.err = "SchemaValidation"
    /\ typedSent = <<>>
    /\ dlqSent = <<arrived>>

\* C6: a call that publishes no typed record raises; a call that returns
\* has published exactly one.  No event is dropped silently.
C6_NoSilentDrop ==
    Called => /\ typedSent = <<>> => outcome.kind = "raised"
              /\ outcome.kind = "returned" => Len(typedSent) = 1
              /\ outcome.kind = "raised" => typedSent = <<>>

C6_Witness ==
    /\ phase = "raised"
    /\ variant = "sqlalchemy"
    /\ ~KnownTable
    /\ typedSent = <<>>
    /\ outcome.kind = "raised"

\* C7: the transform sets isDeleted to 1 exactly when the operation is
\* delete, and to 0 for insert, update and read.
C7_IsDeletedIffDelete ==
    /\ (Called /\ processed.ok)
           => Annotation("is_deleted")
                  = PyInt(IF arrived.metadata.operation = "delete" THEN 1 ELSE 0)
    /\ (variant = "test" /\ testDimension.ok)
           => testDimension.val.fields.is_deleted
                  = PyInt(IF arrived.metadata.operation = "delete" THEN 1 ELSE 0)

C7_Witness ==
    /\ Called
    /\ variant = "moose"
    /\ processed.ok
    /\ arrived.metadata.operation = "delete"
    /\ arrived.payload[1] = "dict"
    /\ "is_deleted" \in DOMAIN arrived.payload[2]
    /\ processed.val["is_deleted"] = PyInt(1)

\* C8: every variant, and the test-suite example, decodes "<high>/<low>"
\* to (high << 32) | low.
C8_TwoPartDecodedEverywhere ==
    TwoPartHex(arrived.metadata.lsn)
        => /\ Called
               => /\ processed.ok
                  /\ Annotation("lsn") = PyBigInt(TwoPartNumber(arrived.metadata.lsn))
           /\ variant = "test"
               => /\ testDimension.ok
                  /\ testDimension.val.fields.lsn
                         = PyBigInt(TwoPartNumber(arrived.metadata.lsn))

\* C9 as stated: a position without "/" that is valid hexadecimal decodes
\* to its value (high 0) and does not fail, in each consumer.
C9_SlashlessDecodedEverywhere ==
    (Called /\ IsHex(arrived.metadata.lsn))
        => /\ processed.ok
           /\ Annotation("lsn") = PyBigInt(HexNumber(arrived.metadata.lsn))

\* C9, amended: a position without "/" that is valid hexadecimal decodes
\* to its value (high 0) in the sqlalchemy consumer only; both sqlmodel
\* consumers unpack split('/') into two parts, fail on it, and the event is
\* dead-lettered.
C9_SlashlessDecodedByWholeOnly ==
    (Called /\ IsHex(arrived.metadata.lsn))
        => /\ variant = "sqlalchemy"
               => /\ processed.ok
                  /\ Annotation("lsn") = PyBigInt(HexNumber(arrived.metadata.lsn))
                  /\ outcome.kind = "returned"
           /\ variant \in {"moose", "app"}
               => /\ processed = Fail("MalformedPosition")
                  /\ outcome.kind = "raised"
                  /\ typedSent = <<>>
                  /\ phase = "done" => dlqSent = <<arrived>>

C9_Witness ==
    /\ Delivered
    /\ variant = "sqlalchemy"
    /\ arrived.metadata.lsn = <<"1", "A">>
    /\ processed.ok
    /\ processed.val.fields.lsn = PyBigInt(Big(26))
    /\ Len(typedSent) = 1

\* C10: a malformed position, the empty string included, makes the
\* transform fail; it is never decoded, to 0 or to anything else.
C10_MalformedPositionFails ==
    (Called /\ MalformedPosition)
        => /\ processed = Fail("MalformedPosition")
           /\ outcome.kind = "raised"
           /\ typedSent = <<>>

\* C11: transform_cdc_payload called twice on the same event object gives
\* two equal results, and the event is the same before the first call,
\* between the calls and after the second call.
C11_TransformTwiceSame ==
    (phase = "done" /\ again # NoAgain)
        => /\ again.result = processed
           /\ again.between = arrived
           /\ event = arrived

\* C18: transform_cdc_payload leaves its input as it found it, whether it
\* returns or raises; is_deleted and lsn are set on the returned mapping
\* only.
C18_TransformLeavesInput ==
    phase = "transformed"
        => /\ event = arrived
           /\ processed.ok
                  => {"is_deleted", "lsn"} \subseteq DOMAIN processed.val

\* C19: for a payload that is None or otherwise no mapping (and a position
\* that decodes), transform_cdc_payload returns a mapping holding exactly
\* is_deleted and the decoded position.
C19_NonMappingPayloadAnnotated ==
    (/\ phase = "transformed"
     /\ arrived.payload[1] # "dict"
     /\ TwoPartHex(arrived.metadata.lsn))
        => /\ processed.ok
           /\ DOMAIN processed.val = {"is_deleted", "lsn"}
           /\ processed.val["lsn"] = PyBigInt(TwoPartNumber(arrived.metadata.lsn))
           /\ processed.val["is_deleted"]
                  = PyInt(IF arrived.metadata.operation = "delete" THEN 1 ELSE 0)

\* the default the normalizer is to give a null of a declared type
ZeroOf(type) ==
    CASE type = "int" -> PyInt(0)
      [] type = "str" -> PyStr("")
      [] type = "float" -> PyFloat(0)
      [] type = "Decimal" -> PyDecimal(0)

\* C12: the normalizer leaves every supplied value that is not None as it
\* is, 0, False and '' included, and turns an explicit None of a declared
\* non-nullable field into the default of the field's type.
C12_OnlyNullsReplaced ==
    normalized # NotNormalized
        => \A k \in DOMAIN normalized.input :
               /\ normalized.input[k] # PyNone
                      => normalized.output[k] = normalized.input[k]
               /\ (/\ normalized.input[k] = PyNone
                   /\ k \in DOMAIN ModelFields(normalized.cls)
                   /\ ~ModelFields(normalized.cls)[k].nullable)
                      => normalized.output[k] = ZeroOf(ModelFields(normalized.cls)[k].type)

C12_Witness ==
    /\ normalized.cls = "moose.OrderItem"
    /\ {"quantity", "price", "orderId"} \subseteq DOMAIN normalized.input
    /\ normalized.input["quantity"] = PyInt(0)
    /\ normalized.input["price"] = PyNone
    /\ normalized.input["orderId"] = PyNone
    /\ normalized.output["quantity"] = PyInt(0)
    /\ normalized.output["price"] = PyDecimal(0)
    /\ normalized.output["orderId"] = PyInt(0)

\* C20: the normalizer adds no key: the output has the keys of the input,
\* a declared field whose key is absent stays absent, and a key that no
\* field declares keeps its value.
C20_AbsentKeysLeftAlone ==
    normalized # NotNormalized
        => /\ DOMAIN normalized.output = DOMAIN normalized.input
           /\ \A k \in DOMAIN normalized.input \ DOMAIN ModelFields(normalized.cls) :
                  normalized.output[k] = normalized.input[k]

C20_Witness ==
    /\ normalized.cls = "moose.Customer"
    /\ "name" \notin DOMAIN normalized.input
    /\ "createdAt" \in DOMAIN normalized.input
    /\ normalized.input["createdAt"] = PyNone
    /\ "name" \notin DOMAIN normalized.output
    /\ normalized.output["createdAt"] = PyNone

\* C13: on a known table, for insert, update and delete, the static
\* dispatch of sqlmodel-example/app/main.py and the registry lookup of
\* sqlmodel-example/moose publish the same record content to that table's
\* sink, or both fail and dead-letter the same event.
C13_StaticAndRegistryAgree ==
    (Delivered /\ variant = "app" /\ KnownTable)
        => LET moose == ProcessMoose(arrived, MooseStreams)
           IN  IF outcome.kind = "returned"
               THEN /\ ~moose.raised
                    /\ moose.sends[1].stream = SinkOfTable("moose")[arrived.metadata.table]
                    /\ typedSent[1].stream = SinkOfTable("app")[arrived.metadata.table]
                    /\ moose.sends[1].record.fields = typedSent[1].record.fields
               ELSE /\ moose.raised
                    /\ dlqSent = <<moose.event>>

\* C14: an envelope {metadata: {table, operation, lsn}, payload} whose
\* operation is "read" is accepted and routed like an insert, with
\* isDeleted 0; it is neither rejected nor dead-lettered for its operation.
C14_ReadAccepted ==
    (/\ phase = "done"
     /\ variant # "test"
     /\ arrived.metadata.operation = "read"
     /\ KnownTable
     /\ WellFormedPosition
     /\ arrived.payload = PyDict(FullPayload(arrived.metadata.table)))
        => /\ outcome.kind = "returned"
           /\ Len(typedSent) = 1
           /\ typedSent[1].record.fields.is_deleted = PyInt(0)
           /\ dlqSent = <<>>

\* a field of a record holds the value the payload gave, in the field's type
PassedThrough(field, raw) ==
    \/ field = raw
    \/ raw[1] = "str" /\ raw[2] \in DOMAIN NumericText
           /\ field[1] \in {"Decimal", "float"} /\ field[2] = NumericText[raw[2]]
    \/ raw[1] = "str" /\ raw[2] \in DOMAIN IsoText
           /\ field = PyDatetime(IsoText[raw[2]])

\* C17: an insert on the product table with a fully populated payload
\* publishes to the product sink a record with isDeleted 0, the decoded
\* position, and every business field of the payload (id, name, category,
\* price, createdAt) with its value.
C17_ProductInsertPassesFields ==
    (/\ Delivered
     /\ variant = "moose"
     /\ arrived.metadata.table = "product"
     /\ arrived.metadata.operation = "insert"
     /\ WellFormedPosition
     /\ arrived.payload = PyDict(FullPayload("product")))
        => /\ outcome.kind = "returned"
           /\ Len(typedSent) = 1
           /\ typedSent[1].stream = "product"
           /\ typedSent[1].record.fields.is_deleted = PyInt(0)
           /\ typedSent[1].record.fields.lsn
                  = PyBigInt(TwoPartNumber(arrived.metadata.lsn))
           /\ \A k \in DOMAIN FullPayload("product") :
                  /\ k \in DOMAIN typedSent[1].record.fields
                  /\ PassedThrough(typedSent[1].record.fields[k], arrived.payload[2][k])

\* the rows of a table with each row of equal content kept once
RECURSIVE OnceEach(_)
OnceEach(rows) ==
    IF rows = <<>> THEN <<>>
    ELSE LET front == OnceEach(SubSeq(rows, 1, Len(rows) - 1))
             last == rows[Len(rows)]
         IN  IF \E i \in DOMAIN front : front[i] = last THEN front
             ELSE Append(front, last)

\* C15: under at-least-once delivery, the records of one event (one log
\* position of one key) have the same content each time, and what every
\* destination table returns is what it would return had each event been
\* processed once.
C15_ReprocessingIdempotent ==
    \A t \in DOMAIN stored :
        /\ \A i, j \in DOMAIN stored[t] :
               (stored[t][i].id = stored[t][j].id /\ stored[t][i].lsn = stored[t][j].lsn)
                   => stored[t][i] = stored[t][j]
        /\ SelectFinal(variant, t, stored[t]) = SelectFinal(variant, t, OnceEach(stored[t]))

\* an event was processed, another one after it, and then the first again
C15_Witness ==
    \E t \in DOMAIN stored :
        \E i, j, k \in DOMAIN stored[t] :
            /\ i < j /\ j < k
            /\ stored[t][i] = stored[t][k]
            /\ stored[t][j] # stored[t][i]
            /\ stored[t][j].id = stored[t][i].id

\* C16: whatever the order and the repetitions in which the inserts,
\* updates and deletes of one key were routed, the destination returns for
\* the key the row of the highest position alone, and no row when that
\* row is a delete.
C16_LastWriteWinsPerKey ==
    \A t \in DOMAIN stored :
        \A n \in DOMAIN stored[t] :
            LET rows == stored[t]
                same == {i \in DOMAIN rows : rows[i].id = rows[n].id}
                top == CHOOSE i \in same : \A j \in same : ~VerLess(rows[i].lsn, rows[j].lsn)
                final == SelectFinal(variant, t, rows)
                shown == {r \in DOMAIN final : r.id = rows[n].id}
            IN  IF rows[top].is_deleted = PyInt(0)
                THEN shown = {rows[top]} /\ final[rows[top]] = 1
                ELSE shown = {}

\* C21: a field declared Optional that is present with None keeps its None
\* through the normalizer; only fields of a non-nullable type are replaced.
C21_NullableKeepsNull ==
    normalized # NotNormalized
        => \A k \in DOMAIN normalized.input \cap DOMAIN ModelFields(normalized.cls) :
               (ModelFields(normalized.cls)[k].nullable /\ normalized.input[k] = PyNone)
                   => normalized.output[k] = PyNone

\* C22: every event the consumer was called with ends in exactly one of
\* two outcomes: routed (one record on one typed sink, nothing
\* dead-lettered) or dead-lettered (the failure propagated, the raw event
\* on the dead-letter queue, no typed record).
C22_ExactlyOneOutcome ==
    (Delivered /\ variant \in {"moose", "app"})
        => \/ /\ outcome.kind = "returned"
              /\ Len(typedSent) = 1
              /\ dlqSent = <<>>
           \/ /\ outcome.kind = "raised"
              /\ typedSent = <<>>
              /\ dlqSent = <<arrived>>

\* C23: the stream registry changes only while the module is imported and
\* the source stream has no consumer yet, hence before the first event is
\* processed; from the first call of the consumer on it is the mapping the
\* startup left, whether the events succeed or fail.
C23_RegistryReadOnly ==
    [][/\ registry' # registry => (~startup.consumer /\ arrived = NoEvent)
       /\ phase' # "idle" /\ phase' # phase => registry' = registry
       /\ phase' \in {"returned", "raised"} => registry' = StartupRegistry(variant)]_vars

\* the consumer has failed on an event and succeeded on another
C23_Witness ==
    /\ variant = "moose"
    /\ phase = "done"
    /\ outcome.kind = "raised"
    /\ registry = StartupRegistry("moose")
    /\ startup.pc > Len(MooseMain)

\* the tables of the OLTP schema (src/db/models.py, table=True) with the
\* OLAP model of each
OltpTables ==
    [customer |-> "moose.Customer", product |-> "moose.Product",
     order |-> "moose.Order", orderitem |-> "moose.OrderItem"]

\* C28: in the registry-lookup app, once the consumer is added, each of the
\* four OLTP table names is the name of a registered stream whose model is
\* the OLAP model of that table and whose destination is the OLAP table of
\* that table and model.
C28_StreamNamesMatchTables ==
    (variant = "moose" /\ startup.consumer)
        => \A t \in DOMAIN OltpTables :
               /\ HasStream(registry, t)
               /\ registry[t].model_type = OltpTables[t]
               /\ registry[t].destination = t
               /\ t \in DOMAIN startup.tables
               /\ startup.tables[t] = OltpTables[t]

\* an order item event was looked up by its table name and routed
C28_Witness ==
    /\ variant = "moose"
    /\ phase = "done"
    /\ arrived.metadata.table = "orderitem"
    /\ outcome.kind = "returned"
    /\ Len(typedSent) = 1
    /\ typedSent[1].stream = "orderitem"
    /\ typedSent[1].record.cls = "moose.OrderItem"

\* C29: in each app, when an event of the source stream arrives, every
\* typed sink is declared with a declared destination table and
\* process_cdc_events is the consumer of the source stream, with its
\* dead-letter queue; no event is left unprocessed.
C29_RegisteredBeforeFirstEvent ==
    arrived # NoEvent
        => /\ startup.consumer
           /\ startup.dead_letter_queue
           /\ outcome.kind # "unconsumed"
           /\ DOMAIN registry = DOMAIN StartupRegistry(variant)
           /\ \A s \in DOMAIN registry : registry[s].destination \in DOMAIN startup.tables

\* the workers that have published, and what each publishes when it runs alone
Published == {w \in DOMAIN workers : workers[w].pc = "done"}

Alone(w) == ProcessCdcEvents(variant, workers[w].arrived, StartupRegistry(variant))

PositionParts(s) ==
    LET k == CHOOSE i \in 1..Len(s) : s[i] = "/"
    IN  <<HexNumber(SubSeq(s, 1, k - 1)), HexNumber(SubSeq(s, k + 1, Len(s)))>>

\* the order of the source's log: the high part first, then the low part
LogBefore(a, b) ==
    \/ MagLess(PositionParts(a)[1].mag, PositionParts(b)[1].mag)
    \/ /\ PositionParts(a)[1] = PositionParts(b)[1]
       /\ MagLess(PositionParts(a)[2].mag, PositionParts(b)[2].mag)

\* the decoder of the consumer, and the one of the test-suite example
DecoderOf(v, s) == IF v = "test" THEN DecodeTest(s) ELSE Decode(v, s)

\* C25: of two "<high>/<low>" positions the decoder accepts, one precedes
\* the other in log order exactly when its ordinal is the smaller; two
\* different log positions never get the same ordinal.
C25_DecodeOrderPreserving ==
    (arrived # NoEvent /\ TwoPartHex(arrived.metadata.lsn))
        => \A b \in {s \in LsnStrings : TwoPartHex(s)} :
               (DecoderOf(variant, arrived.metadata.lsn).ok /\ DecoderOf(variant, b).ok)
                   => (LogBefore(arrived.metadata.lsn, b)
                          <=> VerLess(PyBigInt(DecoderOf(variant, arrived.metadata.lsn).val),
                                      PyBigInt(DecoderOf(variant, b).val)))

\* C27: the position of every record published to a typed sink is an
\* integer in [0, 2^64): a position string with a sign, or with a part
\* that does not fit 32 bits, is rejected and publishes nothing.
C27_PositionIsUint64 ==
    \A i \in DOMAIN typedSent :
        /\ typedSent[i].record.fields.lsn[1] = "bigint"
        /\ ~typedSent[i].record.fields.lsn[2].neg
        /\ Len(typedSent[i].record.fields.lsn[2].mag) <= 16

\* C26: every record published to a typed sink holds a value other than
\* None in every field its class does not declare Optional, whatever the
\* event was (a delete with null columns included).
C26_NoNullInRequiredField ==
    \A i \in DOMAIN typedSent :
        \A k \in DOMAIN typedSent[i].record.fields :
            (k \in DOMAIN ModelFields(typedSent[i].record.cls)
             /\ ~ModelFields(typedSent[i].record.cls)[k].nullable)
                => typedSent[i].record.fields[k] # PyNone

\* C30: in every record published to a typed sink, is_deleted and lsn are
\* the values derived from metadata.operation and metadata.lsn, also when
\* the payload has keys is_deleted or lsn of its own with other values.
C30_AnnotationFromMetadata ==
    \A i \in DOMAIN typedSent :
        /\ typedSent[i].record.fields.is_deleted
               = PyInt(IF arrived.metadata.operation = "delete" THEN 1 ELSE 0)
        /\ Decode(variant, arrived.metadata.lsn).ok
        /\ typedSent[i].record.fields.lsn
               = PyBigInt(Decode(variant, arrived.metadata.lsn).val)

\* a payload that brought is_deleted 1 and lsn 7 of its own was routed
C30_Witness ==
    /\ phase = "done"
    /\ outcome.kind = "returned"
    /\ arrived.metadata.operation = "insert"
    /\ arrived.payload[1] = "dict"
    /\ {"is_deleted", "lsn"} \subseteq DOMAIN arrived.payload[2]
    /\ arrived.payload[2].is_deleted = PyInt(1)
    /\ arrived.payload[2].lsn = PyInt(7)
    /\ Len(typedSent) = 1
    /\ typedSent[1].record.fields.is_deleted = PyInt(0)
    /\ typedSent[1].record.fields.lsn # PyBigInt(Big(7))

====
